---------------------------- MODULE Spec2Model ----------------------------
(***************************************************************************)
(* State-machine model of geyser-plugin-manager/src/                       *)
(* accounts_update_notifier.rs: the account-update notifier with its       *)
(* optional asynchronous dispatch (bounded channel + worker thread), the   *)
(* per-plugin fanout loops and the close-then-join shutdown.               *)
(*                                                                         *)
(* Caller threads invoke the public operations; the worker thread runs     *)
(* run_async_dispatch.  A step is one access to the shared state of the    *)
(* engine (the sender slot and channel, the thread_hdl slot, the join) or  *)
(* one whole loop over the plugins: the callbacks of a loop touch nothing  *)
(* of the engine, they only extend the history of invocations.             *)
(***************************************************************************)
EXTENDS Integers, Sequences, FiniteSets, TLC

(***************************************************************************)
(* Bounds of the model.                                                    *)
(***************************************************************************)
\* Total number of notify_account_update calls made by the caller threads
\* of the dispatch specifications.
MaxCalls == 3
\* Total number of notify_* calls of the specification of all four of them.
MaxNotifyCalls == 2
\* Total number of calls of AsyncAccountsDispatch::stop.
MaxStops == 2
\* Largest number of registered plugins.
MaxPlugins == 2
\* Largest capacity of the bounded channel.  The source fixes the capacity
\* at 16_384 (line 34); the model takes every capacity from 1 to this bound,
\* so that a full channel is reached within MaxCalls calls.
MaxCapacity == 2

\* Largest number of accounts of a transaction batch.
MaxBatch == 3

\* Largest number of owners one plugin declares.
MaxOwners == 2

\* Width of a u64 in the model: write versions are kept below 2^U64_BITS.
U64_BITS == 4
U64_MAX == 2^U64_BITS - 1

Threads == {"t1", "t2"}
Worker == "worker"
Actors == Threads \cup {Worker}

None == "None"

(***************************************************************************)
(* Inputs of the calls.                                                    *)
(***************************************************************************)
\* Arguments of notify_account_update (lines 82-89).
UpdateArgs ==
    { [slot |-> 1, pubkey |-> "k1", txn |-> None, write_version |-> 7,
       account |-> [lamports |-> 10, owner |-> "o1", executable |-> FALSE,
                    rent_epoch |-> 0, data |-> "d1"]],
      [slot |-> 2, pubkey |-> "k2", txn |-> "tx1", write_version |-> 8,
       account |-> [lamports |-> 20, owner |-> "o2", executable |-> TRUE,
                    rent_epoch |-> 1, data |-> "d2"]] }

\* The update of the call-th notify_account_update of the dispatch
\* specifications: the callers' updates alternate between the two above and
\* carry increasing write versions.  The engine copies these values and never
\* branches on them.
UpdateOf(call) ==
    LET a == CHOOSE u \in UpdateArgs : u.slot = 2 - (call % 2)
    IN  [a EXCEPT !.write_version = 6 + call]

\* Arguments of notify_account_restore_from_snapshot (lines 119-124); the
\* AccountForGeyser carries the pubkey with the account's fields.
RestoreArgs ==
    { [slot |-> 1, write_version |-> 5,
       account |-> [pubkey |-> "k1", lamports |-> 10, owner |-> "o1",
                    executable |-> FALSE, rent_epoch |-> 0, data |-> "d1"]] }

\* Arguments of notify_transaction_accounts (lines 184-191).
TransactionArgs ==
    { [slot |-> 1, signature |-> "sig1", transaction_index |-> 0,
       write_version_start |-> 3,
       accounts |-> << [pubkey |-> "k1", lamports |-> 10, owner |-> "o1",
                        executable |-> FALSE, rent_epoch |-> 0, data |-> "d1"],
                       [pubkey |-> "k2", lamports |-> 20, owner |-> "o2",
                        executable |-> TRUE, rent_epoch |-> 1, data |-> "d2"],
                       [pubkey |-> "k3", lamports |-> 30, owner |-> "o1",
                        executable |-> FALSE, rent_epoch |-> 1, data |-> "d3"] >>] }

\* A batch of n accounts written by one transaction, with the base write
\* version b (any u64): the arguments of a notify_transaction_accounts.
BatchArgs(b, n) ==
    [ slot |-> 1, signature |-> "sig1", transaction_index |-> 0,
      write_version_start |-> b,
      accounts |-> [ i \in 1..n |->
                       [ pubkey |-> i, lamports |-> 10 * i, owner |-> "o1",
                         executable |-> FALSE, rent_epoch |-> 0, data |-> "d1" ] ] ]

\* A registered plugin, as far as the notifier can tell plugins apart: whether
\* its callbacks return Err.
PluginKinds == [fails : BOOLEAN]

\* The owner pubkeys plugins declare; Pubkey is totally ordered (Ord).
OwnerKeys == {1, 2, 3}

RECURSIVE SeqsUpTo(_, _)
SeqsUpTo(S, n) ==
    IF n = 0 THEN { <<>> }
    ELSE LET shorter == SeqsUpTo(S, n - 1)
         IN  shorter \cup { Append(s, x) : s \in { q \in shorter : Len(q) = n - 1 }, x \in S }

\* A registered plugin with what its
\* transaction_accounts_include_readonly_owners() returns (line 280).
OwnerPluginKinds == [fails : {FALSE}, owners : SeqsUpTo(OwnerKeys, MaxOwners)]

VARIABLES
    async_dispatch,     \* BOOLEAN: self.async_dispatch is Some (line 30)
    enable_transaction_accounts_notify,   \* line 31
    plugins,            \* plugin_manager.plugins, the ordered subscriber set
    sender,             \* AsyncAccountsDispatch.sender is Some (line 54)
    thread_hdl,         \* AsyncAccountsDispatch.thread_hdl is Some (line 55)
    hdl_lock,           \* holder of the thread_hdl mutex, or None
    capacity,           \* ASYNC_ACCOUNTS_DISPATCH_CHANNEL_CAPACITY (line 34)
    queue,              \* messages in the bounded channel
    receiver,           \* the Receiver exists (the worker has not dropped it)
    pc,                 \* position of every actor
    cur,                \* the update an actor is about to fan out
    calls,              \* history: one record per notify_* call, by call id
    log,                \* history: every plugin callback invocation, in order
    accepted,           \* history: call ids try_send returned Ok for, in order
    handed,             \* history: call ids the worker handed to the fanout
    views,              \* history: number of ReplicaAccountInfoV3 built
    metrics,            \* counters incremented by inc_new_counter_*
    stops,              \* number of stop calls started
    stopped,            \* number of stop calls that returned
    joins,              \* history: number of JoinHandle::join calls
    repeated,           \* history: stop calls started after a stop returned
    backlog_at_close    \* history: messages in the channel when the sender
                        \* was first taken (-1 before)

vars == << async_dispatch, enable_transaction_accounts_notify, plugins, capacity,
           sender, thread_hdl, hdl_lock, queue, receiver, pc, cur, calls, log,
           accepted, handed, views, metrics, stops, stopped, joins,
           repeated, backlog_at_close >>

\* What construction fixes for the lifetime of the engine.
config == << async_dispatch, enable_transaction_accounts_notify, plugins, capacity >>

\* The history of the shutdown.
shutdown == << stops, stopped, joins, repeated, backlog_at_close >>

NoJob == [call |-> 0]

MetricNames ==
    { "queued", "overflow", "disconnected", "drained", "latency_us",
      "update_account_us", "notify_plugins_us", "copy_stored_us",
      "restore_all_us", "end_of_restore_us", "transaction_accounts_us" }

\* inc_new_counter_*!(name, ..): the counter is modelled by its number of
\* increments, logging taken to be enabled.
Add(m, name, n) == [m EXCEPT ![name] = @ + n]

Inc(m, name) == Add(m, name, 1)

(***************************************************************************)
(* AccountsUpdateNotifierImpl::new (lines 289-314).  With                   *)
(* accounts_notify_async the channel is created and the worker is spawned.  *)
(***************************************************************************)
InitEngine(kinds) ==
    /\ async_dispatch \in BOOLEAN
    /\ enable_transaction_accounts_notify \in BOOLEAN
    /\ plugins \in SeqsUpTo(kinds, MaxPlugins)
    /\ capacity \in IF async_dispatch THEN 1..MaxCapacity ELSE {0}
    /\ sender = async_dispatch
    /\ thread_hdl = async_dispatch
    /\ hdl_lock = None
    /\ queue = <<>>
    /\ receiver = async_dispatch
    /\ pc = [a \in Actors |->
               IF a = Worker THEN (IF async_dispatch THEN "recv" ELSE "absent")
               ELSE "idle"]
    /\ cur = [a \in Actors |-> NoJob]
    /\ calls = <<>>
    /\ log = <<>>
    /\ accepted = <<>>
    /\ handed = <<>>
    /\ views = 0
    /\ metrics = [n \in MetricNames |-> 0]
    /\ stops = 0
    /\ stopped = 0
    /\ joins = 0
    /\ repeated = 0
    /\ backlog_at_close = -1

Init == InitEngine(PluginKinds)

(***************************************************************************)
(* View projections.                                                       *)
(***************************************************************************)
\* accountinfo_from_shared_account_data (lines 351-368)
accountinfo_from_shared_account_data(account, txn, pubkey, write_version) ==
    [ pubkey        |-> pubkey,
      lamports      |-> account.lamports,
      owner         |-> account.owner,
      executable    |-> account.executable,
      rent_epoch    |-> account.rent_epoch,
      data          |-> account.data,
      write_version |-> write_version,
      txn           |-> txn ]

\* A queued update that copies the startup flag of a replay.
QueuedStartupUpdate(call, a) ==
    [ call |-> call, slot |-> a.slot, pubkey |-> a.pubkey,
      account |-> a.account, txn |-> a.txn,
      write_version |-> a.write_version, is_startup |-> TRUE ]

\* QueuedAccountUpdate built by notify_account_update (lines 91-99).  The
\* field call is the history's id of the call; enqueue_at only feeds the
\* latency counter and is left out.
QueuedAccountUpdate(call, a) ==
    [ call          |-> call,
      slot          |-> a.slot,
      pubkey        |-> a.pubkey,
      account       |-> a.account,
      txn           |-> a.txn,
      write_version |-> a.write_version,
      is_startup    |-> FALSE ]

\* The worker's projection of a queued update (lines 329-338).
WorkerAccountInfo(update) ==
    [ pubkey        |-> update.pubkey,
      lamports      |-> update.account.lamports,
      owner         |-> update.account.owner,
      executable    |-> update.account.executable,
      rent_epoch    |-> update.account.rent_epoch,
      data          |-> update.account.data,
      write_version |-> update.write_version,
      txn           |-> update.txn ]

\* accountinfo_from_account_for_geyser (lines 370-384)
accountinfo_from_account_for_geyser(account) ==
    [ pubkey        |-> account.pubkey,
      lamports      |-> account.lamports,
      owner         |-> account.owner,
      executable    |-> account.executable,
      rent_epoch    |-> account.rent_epoch,
      data          |-> account.data,
      write_version |-> 0,
      txn           |-> None ]

(***************************************************************************)
(* The bounded channel (crossbeam_channel::bounded), as the code uses it.  *)
(***************************************************************************)
\* A try_send on a channel without a bound.
ChannelTrySendUnbounded(q, rx) ==
    IF ~rx THEN "Disconnected" ELSE "Ok"

\* A try_send that does not notice that the receiver is gone.
ChannelTrySendIgnoringReceiver(q, rx) ==
    IF Len(q) >= capacity THEN "Full" ELSE "Ok"

\* A try_send that looks at the occupancy before the disconnection.
ChannelTrySendFullFirst(q, rx) ==
    IF Len(q) >= capacity THEN "Full"
    ELSE IF ~rx THEN "Disconnected"
    ELSE "Ok"

\* Sender::try_send as called on line 62: never waits; a channel whose
\* receiver is gone answers Disconnected before its occupancy is looked at.
ChannelTrySend(q, rx) ==
    IF ~rx THEN "Disconnected"
    ELSE IF Len(q) >= capacity THEN "Full"
    ELSE "Ok"

\* AsyncAccountsDispatch::try_send (lines 59-66), under the sender mutex.
TrySendOutcome(snd, q, rx) ==
    IF snd THEN ChannelTrySend(q, rx) ELSE "Disconnected"

\* A channel that puts an accepted message in front of the waiting ones.
QueueAfterSendInFront(q, m, outcome) ==
    IF outcome = "Ok" THEN << m >> \o q ELSE q

\* The channel after try_send of message m with the given outcome.
QueueAfterSend(q, m, outcome) ==
    IF outcome = "Ok" THEN Append(q, m) ELSE q

\* Every outcome counted as queued.
OutcomeCounterAlwaysQueued(outcome) == "queued"

\* The counter notify_account_update increments for an outcome (lines 101-110).
OutcomeCounter(outcome) ==
    CASE outcome = "Ok" -> "queued"
      [] outcome = "Full" -> "overflow"
      [] outcome = "Disconnected" -> "disconnected"

\* An overflowing update dropped, as a queue that sheds load would do.
FallsBackOnClosedOnly(outcome) == outcome = "Disconnected"

\* A caller that goes on to the inline fanout whatever try_send answered.
FallsBackAlways(outcome) == TRUE

\* Lines 101-111: only Ok returns from notify_account_update; Full and
\* Disconnected fall through to the synchronous path.
FallsBack(outcome) == outcome # "Ok"

(***************************************************************************)
(* notify_plugins_of_account_update_inner (lines 400-452).                 *)
(***************************************************************************)
\* The update handed to the function: its arguments and the history's id of
\* the call it stems from.
UpdateJob(call, view, slot, is_startup) ==
    [ call |-> call, view |-> view, slot |-> slot, is_startup |-> is_startup ]

\* Result<()> of a callback of plugin i.
CallbackResult(i) == IF plugins[i].fails THEN "Err" ELSE "Ok"

\* The thread an invocation is made on: the worker's or a caller's.
Role(a) == IF a = Worker THEN Worker ELSE "caller"

\* The history's entry of one callback invocation.
Invocation(a, i, cb, call, arg) ==
    [ plugin |-> i, by |-> Role(a), cb |-> cb, call |-> call, arg |-> arg,
      result |-> CallbackResult(i) ]

\* A loop that gives up at the first callback that returns an error.
NextIndexAfterAbortOnErr(i, result) ==
    IF result = "Err" THEN Len(plugins) + 1 ELSE i + 1

\* What the loop does after plugin i's callback returned (lines 414-436):
\* both arms of the match only log, and the loop goes on with the next plugin.
NextIndexAfter(i, result) == i + 1

\* The loop of lines 412-444 from plugin i on: the invocations it makes.
RECURSIVE UpdateAccountLoop(_, _, _)
UpdateAccountLoop(i, a, job) ==
    IF i > Len(plugins) THEN <<>>
    ELSE LET inv == Invocation(a, i, "update_account", job.call,
                               [ view |-> job.view, slot |-> job.slot,
                                 is_startup |-> job.is_startup ])
         IN  << inv >> \o UpdateAccountLoop(NextIndexAfter(i, inv.result), a, job)

\* Lines 407-411: with no plugin the function returns before the loop.
InnerInvocations(a, job) ==
    IF Len(plugins) = 0 THEN <<>> ELSE UpdateAccountLoop(1, a, job)

\* The counters of the function: one per callback (438-443) and, unless it
\* returned early, one for the whole fanout (446-451).
InnerMetrics(m, n) ==
    IF Len(plugins) = 0 THEN m
    ELSE Inc(Add(m, "update_account_us", n), "notify_plugins_us")

Returned(c) == [c EXCEPT !.returned = TRUE]

\* The calls that have not returned yet: those of the threads between their
\* try_send and their inline fanout.  A call's record keeps the ones in
\* flight when it started; it started after the return of every other
\* earlier call.
InFlight == { cur[t].call : t \in { u \in Threads : pc[u] = "fallback" } }

(***************************************************************************)
(* notify_account_update (lines 82-117).  Without async dispatch the whole *)
(* call is one step.  With it, the step is try_send; a call that was not   *)
(* accepted goes on to Fallback.                                           *)
(***************************************************************************)
NotifyAccountUpdate(t, a) ==
    /\ pc[t] = "idle"
    /\ LET call    == Len(calls) + 1
           message == QueuedAccountUpdate(call, a)
           view    == accountinfo_from_shared_account_data(
                          a.account, a.txn, a.pubkey, a.write_version)
           job     == UpdateJob(call, view, a.slot, FALSE)
           record  == [ op |-> "notify_account_update", args |-> a,
                        outcome |-> "Sync", returned |-> FALSE,
                        overlaps |-> InFlight ]
       IN  IF async_dispatch
           THEN LET outcome == TrySendOutcome(sender, queue, receiver)
                    counted == Inc(metrics, OutcomeCounter(outcome))
                    rec     == [record EXCEPT !.outcome = outcome]
                IN  /\ queue' = QueueAfterSend(queue, message, outcome)
                    /\ accepted' = IF outcome = "Ok" THEN Append(accepted, call)
                                   ELSE accepted
                    /\ metrics' = counted
                    /\ IF FallsBack(outcome)
                       THEN /\ views' = views + 1
                            /\ pc' = [pc EXCEPT ![t] = "fallback"]
                            /\ cur' = [cur EXCEPT ![t] = job]
                            /\ calls' = Append(calls, rec)
                       ELSE /\ calls' = Append(calls, Returned(rec))
                            /\ UNCHANGED << views, pc, cur >>
                    /\ UNCHANGED log
           ELSE LET invs == InnerInvocations(t, job)
                IN  /\ views' = views + 1
                    /\ log' = log \o invs
                    /\ metrics' = InnerMetrics(metrics, Len(invs))
                    /\ calls' = Append(calls, Returned(record))
                    /\ UNCHANGED << queue, accepted, pc, cur >>
    /\ UNCHANGED << config, sender, thread_hdl, hdl_lock, receiver, handed,
                    shutdown >>

\* Lines 114-117 of a call whose try_send was not accepted: the inline fanout.
Fallback(t) ==
    /\ pc[t] = "fallback"
    /\ LET job  == cur[t]
           invs == InnerInvocations(t, job)
       IN  /\ log' = log \o invs
           /\ metrics' = InnerMetrics(metrics, Len(invs))
           /\ calls' = [calls EXCEPT ![job.call] = Returned(@)]
    /\ pc' = [pc EXCEPT ![t] = "idle"]
    /\ cur' = [cur EXCEPT ![t] = NoJob]
    /\ UNCHANGED << config, sender, thread_hdl, hdl_lock, queue, receiver,
                    accepted, handed, views, shutdown >>

(***************************************************************************)
(* notify_account_restore_from_snapshot (lines 119-151).                   *)
(***************************************************************************)
NotifyAccountRestoreFromSnapshot(t, a) ==
    /\ pc[t] = "idle"
    /\ LET call == Len(calls) + 1
           view == [accountinfo_from_account_for_geyser(a.account)
                       EXCEPT !.write_version = a.write_version]
           job  == UpdateJob(call, view, a.slot, TRUE)
           invs == InnerInvocations(t, job)
       IN  /\ views' = views + 1
           /\ log' = log \o invs
           /\ metrics' = Inc(Inc(InnerMetrics(metrics, Len(invs)),
                                 "copy_stored_us"), "restore_all_us")
           /\ calls' = Append(calls,
                  [ op |-> "notify_account_restore_from_snapshot", args |-> a, outcome |-> "Sync", returned |-> TRUE,
                    overlaps |-> InFlight ])
    /\ UNCHANGED << config, sender, thread_hdl, hdl_lock, queue, receiver, pc,
                    cur, accepted, handed, shutdown >>

(***************************************************************************)
(* notify_end_of_restore_from_snapshot (lines 153-182).                    *)
(***************************************************************************)
RECURSIVE EndOfStartupLoop(_, _, _)
EndOfStartupLoop(i, a, call) ==
    IF i > Len(plugins) THEN <<>>
    ELSE LET inv == Invocation(a, i, "notify_end_of_startup", call, None)
         IN  << inv >> \o EndOfStartupLoop(i + 1, a, call)

NotifyEndOfRestoreFromSnapshot(t) ==
    /\ pc[t] = "idle"
    /\ LET call == Len(calls) + 1
           invs == IF Len(plugins) = 0 THEN <<>> ELSE EndOfStartupLoop(1, t, call)
       IN  /\ log' = log \o invs
           /\ metrics' = Add(metrics, "end_of_restore_us", Len(invs))
           /\ calls' = Append(calls,
                  [ op |-> "notify_end_of_restore_from_snapshot", args |-> None, outcome |-> "Sync", returned |-> TRUE,
                    overlaps |-> InFlight ])
    /\ UNCHANGED << config, sender, thread_hdl, hdl_lock, queue, receiver, pc,
                    cur, accepted, handed, views, shutdown >>

(***************************************************************************)
(* notify_transaction_accounts (lines 184-258).                            *)
(***************************************************************************)
\* An addition that wraps around at 2^64.
wrapping_add(x, y) == (x + y) % 2^U64_BITS

\* u64::saturating_add (line 211)
saturating_add(x, y) == IF x + y > U64_MAX THEN U64_MAX ELSE x + y

\* Lines 201-214: the ReplicaAccountInfoV3 of every account of the batch.
TransactionAccountInfos(accounts, write_version_start) ==
    [ i \in 1..Len(accounts) |->
        [ pubkey        |-> accounts[i].pubkey,
          lamports      |-> accounts[i].lamports,
          owner         |-> accounts[i].owner,
          executable    |-> accounts[i].executable,
          rent_epoch    |-> accounts[i].rent_epoch,
          data          |-> accounts[i].data,
          write_version |-> saturating_add(write_version_start, i - 1),
          txn           |-> None ] ]

\* Lines 216-221
ReplicaTransactionAccountsInfo(a) ==
    [ signature |-> a.signature,
      slot      |-> a.slot,
      index     |-> a.transaction_index,
      accounts  |-> TransactionAccountInfos(a.accounts, a.write_version_start) ]

\* A loop that asks no plugin whether it opted in.
SkipsNoPlugin(i, enabled) == FALSE

\* Lines 224-226: a plugin is skipped unless its
\* transaction_accounts_notifications_enabled() answers true; enabled is the
\* set of plugins that answer true during this call.
SkipsPlugin(i, enabled) == i \notin enabled

\* The loop of lines 223-257 from plugin i on.
RECURSIVE TransactionAccountsLoop(_, _, _, _, _)
TransactionAccountsLoop(i, a, call, info, enabled) ==
    IF i > Len(plugins) THEN <<>>
    ELSE IF SkipsPlugin(i, enabled)
         THEN TransactionAccountsLoop(i + 1, a, call, info, enabled)
         ELSE << Invocation(a, i, "notify_transaction_accounts", call,
                            [ info |-> info, enabled |-> enabled ]) >>
              \o TransactionAccountsLoop(i + 1, a, call, info, enabled)

\* A call that goes on to build the batch with no plugin registered.
BuildsBatchWithoutPluginCheck(flag, n) == flag

\* Lines 192-198: the call returns at once unless the notifier was built
\* with enable_transaction_accounts_notify and n > 0 plugins are registered.
BuildsBatch(flag, n) == flag /\ n > 0

NotifyTransactionAccounts(t, a, enabled) ==
    /\ pc[t] = "idle"
    /\ LET call  == Len(calls) + 1
           goes  == BuildsBatch(enable_transaction_accounts_notify, Len(plugins))
           info  == ReplicaTransactionAccountsInfo(a)
           invs  == IF goes THEN TransactionAccountsLoop(1, t, call, info, enabled)
                    ELSE <<>>
       IN  /\ views' = IF goes THEN views + Len(a.accounts) ELSE views
           /\ log' = log \o invs
           /\ metrics' = Add(metrics, "transaction_accounts_us", Len(invs))
           /\ calls' = Append(calls,
                  [ op |-> "notify_transaction_accounts",
                    args |-> [ slot |-> a.slot, signature |-> a.signature,
                               transaction_index |-> a.transaction_index,
                               write_version_start |-> a.write_version_start,
                               accounts |-> Len(a.accounts),
                               enabled |-> enabled ],
                    outcome |-> "Sync", returned |-> TRUE,
                    overlaps |-> InFlight ])
    /\ UNCHANGED << config, sender, thread_hdl, hdl_lock, queue, receiver, pc,
                    cur, accepted, handed, shutdown >>

(***************************************************************************)
(* transaction_accounts_include_readonly_owners (lines 271-285).           *)
(***************************************************************************)
\* Lines 277-281: the owner lists of the plugins from plugin i on, one
\* after the other.
RECURSIVE FlatMapOwners(_)
FlatMapOwners(i) ==
    IF i > Len(plugins) THEN <<>>
    ELSE plugins[i].owners \o FlatMapOwners(i + 1)

RECURSIVE SortInsert(_, _)
SortInsert(x, s) ==
    IF s = <<>> THEN << x >>
    ELSE IF x <= Head(s) THEN << x >> \o s
    ELSE << Head(s) >> \o SortInsert(x, Tail(s))

\* Vec::sort (line 282)
RECURSIVE sort(_)
sort(s) == IF s = <<>> THEN <<>> ELSE SortInsert(Head(s), sort(Tail(s)))

\* A dedup that removes nothing.
dedup_nothing(s) == s

\* Vec::dedup (line 283) removes all but the first of consecutive equal
\* elements.
RECURSIVE dedup(_)
dedup(s) ==
    IF Len(s) <= 1 THEN s
    ELSE IF s[1] = s[2] THEN dedup(Tail(s))
    ELSE << s[1] >> \o dedup(Tail(s))

\* The value the function returns.
IncludeReadonlyOwners ==
    IF ~enable_transaction_accounts_notify THEN <<>>
    ELSE dedup(sort(FlatMapOwners(1)))

\* The call, recorded with the vector it returns as its outcome.
TransactionAccountsIncludeReadonlyOwners(t) ==
    /\ pc[t] = "idle"
    /\ calls' = Append(calls,
           [ op |-> "transaction_accounts_include_readonly_owners",
             args |-> None, outcome |-> IncludeReadonlyOwners,
             returned |-> TRUE, overlaps |-> InFlight ])
    /\ UNCHANGED << config, sender, thread_hdl, hdl_lock, queue, receiver, pc,
                    cur, log, accepted, handed, views, metrics, shutdown >>

(***************************************************************************)
(* run_async_dispatch (lines 316-349).                                     *)
(***************************************************************************)
\* A recv that takes the newest message of the channel.
RecvNewest(q) == Len(q)

\* Receiver::recv (line 320) takes the oldest message of the channel.
RecvIndex(q) == 1

\* A recv that fails as soon as the sender is dropped, messages or not.
RecvDisconnectedOnClose(q, snd) == ~snd

\* Receiver::recv returns Err, which ends the loop, when the channel is
\* empty and every Sender has been dropped; the only Sender is the one in
\* AsyncAccountsDispatch.sender.
RecvDisconnected(q, snd) == q = <<>> /\ ~snd

\* Lines 320-338: a message is received and projected.
WorkerRecv ==
    /\ pc[Worker] = "recv"
    /\ queue # <<>>
    /\ LET k      == RecvIndex(queue)
           update == queue[k]
       IN  /\ queue' = SubSeq(queue, 1, k - 1) \o SubSeq(queue, k + 1, Len(queue))
           /\ cur' = [cur EXCEPT ![Worker] =
                         UpdateJob(update.call, WorkerAccountInfo(update),
                                   update.slot, update.is_startup)]
    /\ views' = views + 1
    /\ metrics' = Inc(metrics, "latency_us")
    /\ pc' = [pc EXCEPT ![Worker] = "deliver"]
    /\ UNCHANGED << config, sender, thread_hdl, hdl_lock, receiver, calls, log,
                    accepted, handed, shutdown >>

\* Lines 339-345: the fanout of the received update, then the drained counter.
WorkerDeliver ==
    /\ pc[Worker] = "deliver"
    /\ LET invs == InnerInvocations(Worker, cur[Worker])
       IN  /\ log' = log \o invs
           /\ metrics' = Inc(InnerMetrics(metrics, Len(invs)), "drained")
    /\ handed' = Append(handed, cur[Worker].call)
    /\ pc' = [pc EXCEPT ![Worker] = "recv"]
    /\ cur' = [cur EXCEPT ![Worker] = NoJob]
    /\ UNCHANGED << config, sender, thread_hdl, hdl_lock, queue, receiver, calls,
                    accepted, views, shutdown >>

\* Lines 320 and 349: recv fails, the loop ends and the thread finishes,
\* dropping the Receiver.
WorkerExit ==
    /\ pc[Worker] = "recv"
    /\ RecvDisconnected(queue, sender)
    /\ pc' = [pc EXCEPT ![Worker] = "exited"]
    /\ receiver' = FALSE
    /\ UNCHANGED << config, sender, thread_hdl, hdl_lock, queue, cur, calls, log,
                    accepted, handed, views, metrics, shutdown >>

\* The callback of plugin k panics in the worker thread (line 414; the
\* abnormal termination of the worker): the plugins before k have been
\* called, the thread unwinds and the Receiver is dropped.  The messages
\* still in the channel are never received; whether the channel discards
\* them at once or keeps them until the Sender is dropped depends on the
\* version of the channel library, so both are allowed.
WorkerPanic ==
    /\ pc[Worker] = "deliver"
    /\ \E k \in 1..Len(plugins) :
          LET invs == InnerInvocations(Worker, cur[Worker])
          IN  /\ Len(invs) >= k
              /\ log' = log \o SubSeq(invs, 1, k - 1)
                            \o << [invs[k] EXCEPT !.result = "Panic"] >>
              /\ metrics' = Add(metrics, "update_account_us", k - 1)
    /\ pc' = [pc EXCEPT ![Worker] = "panicked"]
    /\ cur' = [cur EXCEPT ![Worker] = NoJob]
    /\ receiver' = FALSE
    /\ queue' \in {queue, <<>>}
    /\ UNCHANGED << config, sender, thread_hdl, hdl_lock, calls, accepted,
                    handed, views, shutdown >>

WorkerFinished == pc[Worker] \in {"exited", "panicked"}

(***************************************************************************)
(* AsyncAccountsDispatch::stop (lines 68-74), called on drop of an engine  *)
(* with async dispatch (lines 455-461).                                    *)
(***************************************************************************)
\* A stop that keeps the Sender while it joins the worker.
SenderKept(snd) == snd

\* Line 70: take() leaves None in the sender slot, and the Sender is dropped.
SenderAfterTake(snd) == FALSE

\* A stop that leaves the handle in its slot.
HandleLeftInPlace(hdl) == hdl

\* Line 71: take() leaves None in the thread_hdl slot.
HandleAfterTake(hdl) == FALSE

\* A stop that takes the handle out in a statement of its own, so that the
\* guard is dropped before join() runs.
LockReleasedBeforeJoin(t) == None

\* Line 71: the MutexGuard of thread_hdl is a temporary of the if-let
\* scrutinee, so it lives to the end of the if-let: the lock is held by the
\* caller t while join() runs.
LockHolderWhileJoining(t) == t

StopTakeSender(t) ==
    /\ pc[t] = "idle"
    /\ async_dispatch
    /\ stops < MaxStops
    /\ stops' = stops + 1
    /\ repeated' = IF stopped > 0 THEN repeated + 1 ELSE repeated
    /\ sender' = SenderAfterTake(sender)
    /\ backlog_at_close' = IF sender THEN Len(queue) ELSE backlog_at_close
    /\ pc' = [pc EXCEPT ![t] = "stop_take_hdl"]
    /\ UNCHANGED << config, thread_hdl, hdl_lock, queue, receiver, cur, calls,
                    log, accepted, handed, views, metrics, stopped, joins >>

StopTakeHandle(t) ==
    /\ pc[t] = "stop_take_hdl"
    /\ hdl_lock = None
    /\ IF thread_hdl
       THEN /\ thread_hdl' = HandleAfterTake(thread_hdl)
            /\ hdl_lock' = LockHolderWhileJoining(t)
            /\ joins' = joins + 1
            /\ pc' = [pc EXCEPT ![t] = "stop_join"]
            /\ UNCHANGED stopped
       ELSE /\ pc' = [pc EXCEPT ![t] = "idle"]
            /\ stopped' = stopped + 1
            /\ UNCHANGED << thread_hdl, hdl_lock, joins >>
    /\ UNCHANGED << config, sender, queue, receiver, cur, calls, log, accepted,
                    handed, views, metrics, stops, repeated,
                    backlog_at_close >>

\* A stop that does not wait for the worker (the handle dropped, not joined).
JoinReturnsAtOnce == TRUE

\* Line 72: join() returns once the worker thread has finished (Ok after a
\* normal exit, Err after a panic; the result is discarded).
JoinReturns == WorkerFinished

StopJoin(t) ==
    /\ pc[t] = "stop_join"
    /\ JoinReturns
    /\ hdl_lock' = IF hdl_lock = t THEN None ELSE hdl_lock
    /\ pc' = [pc EXCEPT ![t] = "idle"]
    /\ stopped' = stopped + 1
    /\ UNCHANGED << config, sender, thread_hdl, queue, receiver, cur, calls, log,
                    accepted, handed, views, metrics, stops, joins, repeated,
                    backlog_at_close >>

(***************************************************************************)
(* Specifications.                                                         *)
(***************************************************************************)
Stop(t) ==
    \/ StopTakeSender(t)
    \/ StopTakeHandle(t)
    \/ StopJoin(t)

WorkerStep ==
    \/ WorkerRecv
    \/ WorkerDeliver
    \/ WorkerExit

\* The dispatch engine: callers of notify_account_update and of stop, and
\* the worker.  No action reads enable_transaction_accounts_notify, which
\* is left false.
InitDispatch == Init /\ ~enable_transaction_accounts_notify

Next ==
    \/ \E t \in Threads :
          \/ Len(calls) < MaxCalls /\ NotifyAccountUpdate(t, UpdateOf(Len(calls) + 1))
          \/ Fallback(t)
          \/ Stop(t)
    \/ WorkerStep

\* Every plugin callback returns.
Spec == InitDispatch /\ [][Next]_vars

NextPanic ==
    \/ Next
    \/ WorkerPanic

\* Plugin callbacks may also panic in the worker thread.
SpecPanic == InitDispatch /\ [][NextPanic]_vars

\* The scheduler runs every thread that can take a step: the worker, and a
\* caller that is inside a call.
Fairness ==
    /\ WF_vars(WorkerStep)
    /\ \A t \in Threads : WF_vars(Fallback(t) \/ StopTakeHandle(t) \/ StopJoin(t))

SpecFair == Spec /\ Fairness

\* The four notify_* operations on an engine that is not shut down.
NextNotify ==
    \/ \E t \in Threads :
          /\ Len(calls) < MaxNotifyCalls
          /\ \/ \E a \in UpdateArgs : NotifyAccountUpdate(t, a)
             \/ \E a \in RestoreArgs : NotifyAccountRestoreFromSnapshot(t, a)
             \/ NotifyEndOfRestoreFromSnapshot(t)
             \/ \E a \in TransactionArgs, enabled \in SUBSET (1..Len(plugins)) :
                   NotifyTransactionAccounts(t, a, enabled)
    \/ \E t \in Threads : Fallback(t)
    \/ WorkerRecv
    \/ WorkerDeliver

SpecNotify == Init /\ [][NextNotify]_vars

\* One notify_transaction_accounts with a batch of any size up to MaxBatch
\* and any u64 as base write version.
NextBatch ==
    \E t \in Threads, b \in 0..U64_MAX, n \in 0..MaxBatch,
       enabled \in SUBSET (1..Len(plugins)) :
        /\ Len(calls) < 1
        /\ NotifyTransactionAccounts(t, BatchArgs(b, n), enabled)

SpecBatch == Init /\ [][NextBatch]_vars

\* The owners query on a notifier whose plugins declare owner lists.
InitOwners == InitEngine(OwnerPluginKinds)

NextOwners ==
    \E t \in Threads :
        /\ Len(calls) < 1
        /\ TransactionAccountsIncludeReadonlyOwners(t)

SpecOwners == InitOwners /\ [][NextOwners]_vars

(***************************************************************************)
(* Properties.                                                             *)
(***************************************************************************)
IsPrefix(s, t) == Len(s) <= Len(t) /\ SubSeq(t, 1, Len(s)) = s

CallIds == 1..Len(calls)

\* The invocations of update_account that stem from call c, in order.
UpdatesOf(c) ==
    SelectSeq(log, LAMBDA e : e.call = c /\ e.cb = "update_account")

\* C1 (drain completeness): once a call of stop has returned, the channel is
\* empty and the worker has handed every update try_send accepted to the
\* fanout, in the order of acceptance.
C1_DrainCompleteness ==
    stopped > 0 =>
        /\ queue = <<>>
        /\ handed = accepted
        /\ \A c \in CallIds :
              calls[c].outcome = "Ok" => Len(UpdatesOf(c)) = Len(plugins)

\* C1, its case: stop was called while everything accepted (two updates or
\* more) was still in the channel, the worker having received nothing, and
\* has returned.
C1_Witness ==
    /\ stopped > 0
    /\ Len(accepted) >= 2
    /\ backlog_at_close = Len(accepted)
    /\ Len(plugins) > 0

\* What the worker hands to the fanout for the update of call c with
\* arguments a, had try_send accepted it.
AsyncDelivery(c, a) ==
    LET update == QueuedAccountUpdate(c, a)
    IN  [ view |-> WorkerAccountInfo(update), slot |-> update.slot,
          is_startup |-> update.is_startup ]

\* Call c has been delivered to every plugin exactly once, in set order, on
\* the thread of the given role, with the given content.
DeliveredOnce(c, role, content) ==
    LET ups == UpdatesOf(c)
    IN  /\ Len(ups) = Len(plugins)
        /\ \A i \in 1..Len(ups) :
              /\ ups[i].plugin = i
              /\ ups[i].by = role
              /\ ups[i].arg = content

NotAccepted(c) ==
    /\ calls[c].op = "notify_account_update"
    /\ calls[c].outcome \in {"Full", "Disconnected"}

\* C2 (no event lost to a full or closed queue): every notify_account_update
\* whose try_send answered Full or Disconnected has, when it returns, been
\* delivered inline to every plugin exactly once, with the content (view,
\* slot, is_startup = false) the worker would have delivered.
C2_NoEventLost ==
    \A c \in CallIds :
        (NotAccepted(c) /\ calls[c].returned) =>
            DeliveredOnce(c, "caller", AsyncDelivery(c, calls[c].args))

\* C2, its case: one call overflowed and one found the queue closed by stop;
\* both have returned, with two plugins registered.
C2_Witness ==
    /\ Len(plugins) = 2
    /\ \E c \in CallIds : calls[c].outcome = "Full" /\ calls[c].returned
    /\ \E c \in CallIds :
          calls[c].outcome = "Disconnected" /\ calls[c].returned /\ stops > 0

\* The outcome the claim gives try_send in the current state; a closed
\* channel answers Disconnected whatever its occupancy.
EnqueueOutcome ==
    IF ~sender \/ ~receiver THEN "Disconnected"
    ELSE IF Len(queue) < capacity THEN "Ok"
    ELSE "Full"

\* A step that starts a call of notify_account_update with async dispatch.
StartsAsyncUpdate ==
    /\ async_dispatch
    /\ Len(calls') = Len(calls) + 1
    /\ calls'[Len(calls')].op = "notify_account_update"

\* C3 (non-blocking enqueue): in every state an idle caller can take the
\* try_send step of notify_account_update at once, and the step is the whole
\* of try_send: its outcome is Ok when the sender is present, the receiver
\* alive and the channel below capacity, Full when they are present and the
\* channel is at capacity, Disconnected when the sender is absent or the
\* receiver is gone; only Ok adds the message to the channel, and the caller
\* is left either returned or on its way to the inline fanout.
C3_NonBlockingEnqueue ==
    /\ [](\A t \in Threads :
            (pc[t] = "idle" /\ async_dispatch) =>
                ENABLED NotifyAccountUpdate(t, UpdateOf(Len(calls) + 1)))
    /\ [][ StartsAsyncUpdate =>
             LET c == Len(calls')
                 r == calls'[c]
             IN  /\ r.outcome = EnqueueOutcome
                 /\ queue' = IF r.outcome = "Ok"
                             THEN Append(queue, QueuedAccountUpdate(c, r.args))
                             ELSE queue
                 /\ r.returned = (r.outcome = "Ok")
                 /\ \A t \in Threads : pc'[t] \in {"idle", "fallback"} \/ pc'[t] = pc[t]
          ]_vars

\* C3, its case: a call answered Disconnected although the sender is present
\* and the channel is full, because the receiver is gone; another overflowed.
C3_Witness ==
    /\ sender /\ ~receiver /\ Len(queue) = capacity
    /\ \E c \in CallIds : calls[c].outcome = "Disconnected"
    /\ \E c \in CallIds : calls[c].outcome = "Ok"

\* The calls of the messages in the channel, oldest first.
RECURSIVE QueuedCalls(_)
QueuedCalls(q) ==
    IF q = <<>> THEN <<>> ELSE << Head(q).call >> \o QueuedCalls(Tail(q))

\* The invocations the worker made of plugin i, as call ids, in order.
WorkerCallsOf(i) ==
    LET es == SelectSeq(log, LAMBDA e : e.by = "worker" /\ e.plugin = i)
    IN  [ k \in 1..Len(es) |-> es[k].call ]

\* C4 (FIFO delivery on the asynchronous path): what the worker has handed
\* to the fanout is a prefix of what try_send accepted, in the order of
\* acceptance; the update the worker holds and the messages in the channel
\* are the updates that follow, in that order; and every plugin has been
\* called by the worker for exactly the handed updates, in that order.
C4_FifoDelivery ==
    /\ IsPrefix(handed, accepted)
    /\ handed \o (IF pc[Worker] = "deliver" THEN << cur[Worker].call >> ELSE <<>>)
              \o QueuedCalls(queue) = accepted
    /\ \A i \in 1..Len(plugins) : WorkerCallsOf(i) = handed

\* C4, its case: the worker has handed on three updates, two of which were
\* waiting in the channel together when the sender was taken.
C4_Witness ==
    /\ Len(handed) = 3
    /\ backlog_at_close = 2
    /\ Len(plugins) = 2

\* The fanout of account update c has run to its end.
FannedOut(c) ==
    /\ calls[c].op = "notify_account_update"
    /\ calls[c].returned
    /\ calls[c].outcome = "Ok" => \E k \in 1..Len(handed) : handed[k] = c

\* C5 (failure isolation in the account-update fanout): with plugins
\* registered, whatever callbacks fail, a fanout that has run has called
\* update_account once on every plugin, in set order, from one thread, with
\* one and the same view, slot and is_startup flag, those of the call; the
\* plugins after a failing one have been called, each result is the
\* plugin's own, and the call has returned to its caller.
C5_FailureIsolation ==
    \A c \in CallIds :
        (FannedOut(c) /\ Len(plugins) > 0) =>
            LET ups == UpdatesOf(c)
            IN  /\ Len(ups) = Len(plugins)
                /\ \A i \in 1..Len(ups) :
                      /\ ups[i].plugin = i
                      /\ ups[i].by = ups[1].by
                      /\ ups[i].arg = ups[1].arg
                      /\ ups[i].result = CallbackResult(i)
                /\ ups[1].arg = AsyncDelivery(c, calls[c].args)

\* C5, its case: the first of two plugins fails and the second does not;
\* a fanout has run in the worker and another inline in a caller.
C5_Witness ==
    /\ Len(plugins) = 2 /\ plugins[1].fails /\ ~plugins[2].fails
    /\ \E c \in CallIds : FannedOut(c) /\ calls[c].outcome = "Ok"
    /\ \E c \in CallIds : FannedOut(c) /\ calls[c].outcome = "Full"

\* What a stop on an engine whose stop has returned must leave alone:
\* the engine and everything the plugins or the worker could notice.
EngineState ==
    << sender, thread_hdl, hdl_lock, queue, receiver, cur, pc[Worker], log,
       accepted, handed, calls, views, metrics, joins >>

\* C6 (idempotent shutdown): once a stop has returned, the sender and the
\* worker handle are absent, the worker has finished and nobody holds the
\* handle's lock; a stop called then can take each of its steps at once
\* (it waits for no lock and no join), and no step of it changes the
\* engine: nothing is joined again and nothing is delivered.
C6_IdempotentShutdown ==
    /\ [](stopped > 0 =>
            /\ ~sender /\ ~thread_hdl /\ hdl_lock = None /\ WorkerFinished
            /\ \A t \in Threads :
                  /\ pc[t] # "stop_join"
                  /\ pc[t] = "stop_take_hdl" => ENABLED StopTakeHandle(t)
                  /\ (pc[t] = "idle" /\ stops < MaxStops) => ENABLED StopTakeSender(t))
    /\ [][ (stopped > 0 /\ \E t \in Threads : Stop(t)) =>
              /\ UNCHANGED EngineState
              /\ \A t \in Threads :
                    pc'[t] \in {"idle", "stop_take_hdl"} \/ pc'[t] = pc[t] ]_vars

\* C6, its case: a stop that was called after another stop had returned
\* has returned too.
C6_Witness ==
    /\ repeated > 0
    /\ stopped = stops
    /\ joins = 1
    /\ Len(handed) > 0

\* Some thread is inside a call, or the worker has work or a closure to see.
Busy ==
    \/ \E t \in Threads : pc[t] # "idle"
    \/ pc[Worker] = "deliver"
    \/ pc[Worker] = "recv" /\ (queue # <<>> \/ ~sender)

\* A step of a thread that is inside a call, or of the worker.
Progress ==
    \/ WorkerStep
    \/ \E t \in Threads : Fallback(t) \/ StopTakeHandle(t) \/ StopJoin(t)

\* C7 (shutdown terminates): with callbacks that return and a fair
\* scheduler, every call of stop that has taken the sender returns; and in
\* no reachable state are the threads that are inside a call, and the
\* worker, all unable to step.
C7_ShutdownTerminates ==
    /\ \A t \in Threads :
          (pc[t] \in {"stop_take_hdl", "stop_join"}) ~> (pc[t] = "idle")
    /\ [](Busy => ENABLED Progress)

\* C7, its case: a caller of stop waits in join while the worker is blocked
\* in recv on an empty channel and a producer is inside its inline fanout.
C7_Witness ==
    \E t, u \in Threads :
        /\ pc[t] = "stop_join"
        /\ pc[u] = "fallback"
        /\ pc[Worker] = "recv" /\ queue = <<>>

\* Plugin i was called for call c2 before it was called for call c1.
ObservedBefore(c2, c1, i) ==
    \E k2, k1 \in 1..Len(log) :
        /\ k2 < k1
        /\ log[k2].plugin = i /\ log[k2].call = c2
        /\ log[k1].plugin = i /\ log[k1].call = c1

\* Call c1 had returned when call c2 was made, as two calls of one producer.
ReturnedBefore(c1, c2) == c1 < c2 /\ c1 \notin calls[c2].overlaps

\* C8 (reordering hazard): a plugin observes a later call before an earlier
\* call that had returned only across the two paths: the earlier update was
\* accepted by try_send and the later one was not and went inline.  (That
\* such an execution is reachable with a single producer is C8_Witness.)
C8_ReorderingHazard ==
    \A c1, c2 \in CallIds :
        (ReturnedBefore(c1, c2) /\ \E i \in 1..Len(plugins) : ObservedBefore(c2, c1, i)) =>
            /\ calls[c1].outcome = "Ok"
            /\ calls[c2].outcome \in {"Full", "Disconnected"}

\* C8, its case: no two calls overlap (a single producer), no stop is
\* called, e1 is accepted, the later e2 overflows, and the first plugin
\* has observed e2 before e1.
C8_Witness ==
    /\ stops = 0
    /\ \A c \in CallIds : calls[c].overlaps = {} /\ calls[c].returned
    /\ \E c1, c2 \in CallIds :
          /\ c1 < c2
          /\ calls[c1].outcome = "Ok"
          /\ calls[c2].outcome = "Full"
          /\ ObservedBefore(c2, c1, 1)

\* C9 (graceful degradation after a worker crash): once the worker has
\* panicked and while the sender is present, try_send answers every
\* notify_account_update with Disconnected, whether the channel is full,
\* partly filled or empty, leaves the channel alone and sends the caller to
\* the inline fanout; and every call answered Disconnected that has
\* returned was delivered inline to every plugin exactly once.
C9_GracefulDegradation ==
    /\ [][ (pc[Worker] = "panicked" /\ sender /\ StartsAsyncUpdate) =>
              LET c == Len(calls')
              IN  /\ calls'[c].outcome = "Disconnected"
                  /\ ~calls'[c].returned
                  /\ queue' = queue
                  /\ \E t \in Threads : pc'[t] = "fallback" /\ cur'[t].call = c
          ]_vars
    /\ [](\A c \in CallIds :
            (calls[c].outcome = "Disconnected" /\ calls[c].returned) =>
                DeliveredOnce(c, "caller", AsyncDelivery(c, calls[c].args)))

\* C9, its case: the worker panicked with the channel full, the sender is
\* still present, and a later call was answered Disconnected and delivered.
C9_Witness ==
    /\ pc[Worker] = "panicked" /\ sender
    /\ Len(queue) = capacity
    /\ \E c \in CallIds :
          /\ calls[c].outcome = "Disconnected" /\ calls[c].returned
          /\ \E k \in 1..Len(log) : log[k].call = c /\ log[k].by = "caller"

\* The counters that are incremented once per plugin callback or fanout.
PerSubscriberCounters ==
    { "update_account_us", "notify_plugins_us", "end_of_restore_us",
      "transaction_accounts_us" }

NoCallbackNoCounter ==
    /\ log = <<>>
    /\ \A n \in PerSubscriberCounters : metrics[n] = 0

\* The calls that have built their ReplicaAccountInfoV3: a restore, an
\* update delivered inline, or an update the worker has received.
ViewBuilders ==
    { c \in CallIds :
        \/ calls[c].op = "notify_account_restore_from_snapshot"
        \/ /\ calls[c].op = "notify_account_update"
           /\ \/ calls[c].outcome # "Ok"
              \/ \A k \in 1..Len(queue) : queue[k].call # c }

\* C10 as stated: with no plugin registered no notify call builds a view,
\* calls a plugin or increments a per-subscriber counter.
C10_NoViewBuilt ==
    Len(plugins) = 0 => (views = 0 /\ NoCallbackNoCounter)

\* C10 (empty-subscriber short-circuit), amended: with no plugin registered
\* no notify call calls a plugin or increments a per-subscriber counter;
\* notify_end_of_restore_from_snapshot and notify_transaction_accounts
\* build no view, while notify_account_update (inline or in the worker) and
\* notify_account_restore_from_snapshot build exactly one view per event,
\* before the fanout finds the plugin set empty.
C10_EmptySubscribers ==
    Len(plugins) = 0 =>
        /\ NoCallbackNoCounter
        /\ views = Cardinality(ViewBuilders)

\* C10, its case: no plugin is registered; a notify_transaction_accounts
\* on a notifier built with the flag has returned, and the worker has
\* handed on an update, for which one view was built.
C10_Witness ==
    /\ Len(plugins) = 0
    /\ enable_transaction_accounts_notify
    /\ \E c \in CallIds : calls[c].op = "notify_transaction_accounts"
    /\ Len(handed) = 1
    /\ views = 1

\* The batches delivered to plugins by notify_transaction_accounts.
DeliveredBatches ==
    { k \in 1..Len(log) : log[k].cb = "notify_transaction_accounts" }

\* C11 as stated: every delivered batch holds the n views of the call in
\* input order, the i-th (from 0) with write version b + i.
C11_WriteVersionsOffset ==
    \A k \in DeliveredBatches :
        LET a    == calls[log[k].call].args
            accs == log[k].arg.info.accounts
        IN  /\ Len(accs) = a.accounts
            /\ \A i \in 1..Len(accs) :
                  /\ accs[i].pubkey = i
                  /\ accs[i].write_version = a.write_version_start + (i - 1)

\* C11 (write-version assignment in batches), amended: every delivered
\* batch holds the n views of the call in input order, the i-th (from 0)
\* with write version b + i where that is a u64 and u64::MAX where it is
\* not; the write versions never decrease, and they are distinct and
\* strictly increasing when b + (n - 1) is a u64.
C11_WriteVersionsSaturating ==
    \A k \in DeliveredBatches :
        LET a    == calls[log[k].call].args
            b    == a.write_version_start
            accs == log[k].arg.info.accounts
        IN  /\ Len(accs) = a.accounts
            /\ \A i \in 1..Len(accs) :
                  /\ accs[i].pubkey = i
                  /\ accs[i].write_version =
                        IF b + (i - 1) <= U64_MAX THEN b + (i - 1) ELSE U64_MAX
            /\ \A i, j \in 1..Len(accs) :
                  i < j => /\ accs[i].write_version <= accs[j].write_version
                           /\ b + (Len(accs) - 1) <= U64_MAX =>
                                 accs[i].write_version < accs[j].write_version

\* C11, its case: a batch of three was delivered whose base write version
\* is u64::MAX - 1, so that the third offset is past u64::MAX.
C11_Witness ==
    \E k \in DeliveredBatches :
        /\ calls[log[k].call].args.write_version_start = U64_MAX - 1
        /\ Len(log[k].arg.info.accounts) = 3

\* The owners the registered plugins declare, as a set.
DeclaredOwners ==
    UNION { { plugins[i].owners[k] : k \in 1..Len(plugins[i].owners) } :
              i \in 1..Len(plugins) }

\* Sequence s is strictly ascending (hence free of duplicates) and holds
\* exactly the elements of S; there is one such sequence for a set.
IsAscendingListOf(s, S) ==
    /\ \A k \in 1..(Len(s) - 1) : s[k] < s[k + 1]
    /\ { s[k] : k \in 1..Len(s) } = S

OwnerQueries ==
    { c \in CallIds : calls[c].op = "transaction_accounts_include_readonly_owners" }

\* C12 as stated: the query returns the union of the declared owners as a
\* strictly ascending sequence, for every plugin set and every owner lists.
C12_OwnersUnion ==
    \A c \in OwnerQueries : IsAscendingListOf(calls[c].outcome, DeclaredOwners)

\* C12 (owner-set aggregation), amended: on a notifier built with the
\* transaction-accounts flag the query returns the union of the declared
\* owners as a strictly ascending sequence without duplicates, which the
\* set alone determines, whatever the order of the plugins and of their
\* lists; on a notifier built without the flag it returns the empty vector.
C12_OwnersUnionWhenEnabled ==
    \A c \in OwnerQueries :
        IF enable_transaction_accounts_notify
        THEN IsAscendingListOf(calls[c].outcome, DeclaredOwners)
        ELSE calls[c].outcome = <<>>

\* C12, its case: two plugins declare overlapping, unsorted lists and the
\* query has returned the three owners in ascending order.
C12_Witness ==
    /\ enable_transaction_accounts_notify
    /\ Len(plugins) = 2
    /\ plugins[1].owners = << 3, 2 >> /\ plugins[2].owners = << 2, 1 >>
    /\ \E c \in OwnerQueries : calls[c].outcome = << 1, 2, 3 >>

\* C13 (sender-handle monotonicity): with async dispatch the sender is
\* present in every state before the first step of the first stop and
\* absent in every state after it; no step of a notify call, a stop or the
\* worker makes an absent sender present; and the worker handle, present
\* from construction, becomes absent in the one step that starts the join
\* and is never present again.
C13_SenderMonotonic ==
    /\ [](async_dispatch => (sender <=> stops = 0))
    /\ [](async_dispatch => (thread_hdl <=> joins = 0) /\ joins <= 1)
    /\ [][ (~sender => ~sender') /\ (~thread_hdl => ~thread_hdl') ]_vars
    /\ [][ (sender /\ ~sender') => (\E t \in Threads : StopTakeSender(t)) ]_vars
    /\ [][ (thread_hdl /\ ~thread_hdl') => (\E t \in Threads : StopTakeHandle(t)) ]_vars

\* C13, its case: two stops have returned, notify calls were made before
\* and after the sender was taken, and sender and handle are absent.
C13_Witness ==
    /\ async_dispatch /\ ~sender /\ ~thread_hdl
    /\ stopped = 2 /\ repeated = 1
    /\ \E c \in CallIds : calls[c].outcome = "Ok"
    /\ \E c \in CallIds : calls[c].outcome = "Disconnected" /\ calls[c].returned

\* The worker leaves its loop in this step.
WorkerLeavesLoop == pc[Worker] \in {"recv", "deliver"} /\ pc'[Worker] = "exited"

\* C14 (worker exit condition): the worker leaves its receive loop only
\* from recv, in a state where the sender is absent and the channel empty;
\* blocked in recv on an empty channel with the sender present it has no
\* step at all, and with a message in the channel and the sender absent
\* it cannot exit and can receive.
C14_WorkerExitCondition ==
    /\ [][ WorkerLeavesLoop => (pc[Worker] = "recv" /\ ~sender /\ queue = <<>>) ]_vars
    /\ []((pc[Worker] = "recv" /\ sender /\ queue = <<>>) => ~ENABLED WorkerStep)
    /\ []((pc[Worker] = "recv" /\ ~sender /\ queue # <<>>) =>
             (~ENABLED WorkerExit /\ ENABLED WorkerRecv))
    /\ [](pc[Worker] = "exited" => (~sender /\ queue = <<>> /\ handed = accepted))

\* C14, its case: the sender was taken while two messages were in the
\* channel; the worker received and delivered them and then exited.
C14_Witness ==
    /\ pc[Worker] = "exited"
    /\ backlog_at_close = 2
    /\ Len(handed) >= 2

\* Number of places of sequence s that hold x.
Occurrences(s, x) == Cardinality({ k \in 1..Len(s) : s[k] = x })

\* Where the update of an accepted call is: waiting in the channel, in the
\* worker's hands, or handed to the fanout.
Holders(c) ==
    Occurrences(QueuedCalls(queue), c)
    + (IF pc[Worker] = "deliver" /\ cur[Worker].call = c THEN 1 ELSE 0)
    + Occurrences(handed, c)

Accepted(c) ==
    calls[c].op = "notify_account_update" /\ calls[c].outcome = "Ok"

\* C15 (exactly-once consumption of accepted envelopes): a call try_send
\* accepted has returned without an inline fanout; its update is in exactly
\* one place (channel, worker, or handed on), it is handed on at most once,
\* no plugin is called for it except by the worker, a plugin is called for
\* it exactly once when it was handed on and not at all before; and with a
\* fair scheduler every accepted update is handed on.
C15_ExactlyOnce ==
    /\ [](\A c \in CallIds :
            Accepted(c) =>
                /\ calls[c].returned
                /\ \A t \in Threads : cur[t].call # c
                /\ Occurrences(accepted, c) = 1
                /\ Holders(c) = 1
                /\ IF Occurrences(handed, c) = 1
                   THEN DeliveredOnce(c, "worker", AsyncDelivery(c, calls[c].args))
                   ELSE UpdatesOf(c) = <<>>)
    /\ \A c \in 1..MaxCalls :
          (c \in CallIds /\ Accepted(c)) ~> (Occurrences(handed, c) = 1)

\* C15, its case: with two plugins, an accepted update was fanned out by
\* the worker while another call had overflowed and gone inline, and a
\* stop has returned.
C15_Witness ==
    /\ Len(plugins) = 2
    /\ stopped > 0
    /\ \E c \in CallIds : Accepted(c) /\ Occurrences(handed, c) = 1
    /\ \E c \in CallIds : calls[c].outcome = "Full" /\ calls[c].returned

\* C16 (bounded queue): in every reachable state the channel holds at most
\* as many messages as the capacity it was created with, however the
\* producers and the worker interleave, and no step changes the capacity.
C16_BoundedQueue ==
    /\ [](Len(queue) <= capacity)
    /\ [][capacity' = capacity]_vars

\* C16, its case: the channel of capacity two is full and a producer's
\* try_send was answered Full.
C16_Witness ==
    /\ capacity = 2 /\ Len(queue) = 2
    /\ \E c \in CallIds : calls[c].outcome = "Full"

\* The async-mode calls of notify_account_update with the given outcome.
CallsWith(outcome) ==
    { c \in CallIds : calls[c].op = "notify_account_update"
                      /\ calls[c].outcome = outcome }

OutcomeCounters == {"queued", "overflow", "disconnected"}

TransactionAccountsCalls ==
    { c \in CallIds : calls[c].op = "notify_transaction_accounts" }

\* The callbacks invoked by call c, in order.
InvocationsOf(c) == SelectSeq(log, LAMBDA e : e.call = c)

\* C18 (opt-in filtering): on a notifier built with the flag and with
\* plugins registered, a notify_transaction_accounts calls
\* notify_transaction_accounts on the plugins that answer that they opted
\* in, each once, in set order, all with the same batch, whatever the
\* callbacks before them returned, and on no other plugin; on a notifier
\* built without the flag it calls no plugin.
C18_OptInFiltering ==
    \A c \in TransactionAccountsCalls :
        LET es    == InvocationsOf(c)
            opted == calls[c].args.enabled
        IN  IF enable_transaction_accounts_notify /\ Len(plugins) > 0
            THEN /\ Len(es) = Cardinality(opted)
                 /\ \A k \in 1..Len(es) :
                       /\ es[k].cb = "notify_transaction_accounts"
                       /\ es[k].plugin \in opted
                       /\ es[k].result = CallbackResult(es[k].plugin)
                       /\ es[k].arg = es[1].arg
                       /\ es[k].arg.info.slot = calls[c].args.slot
                       /\ es[k].arg.info.signature = calls[c].args.signature
                 /\ \A j, k \in 1..Len(es) : j < k => es[j].plugin < es[k].plugin
            ELSE es = <<>>

\* C18, its case: of two plugins the first fails; one call found only the
\* second opted in and called it alone, another found both opted in and
\* called the second after the failing first.
C18_Witness ==
    /\ enable_transaction_accounts_notify
    /\ Len(plugins) = 2 /\ plugins[1].fails
    /\ \E c, d \in TransactionAccountsCalls :
          /\ calls[c].args.enabled = {2} /\ Len(InvocationsOf(c)) = 1
          /\ calls[d].args.enabled = {1, 2}
          /\ Len(InvocationsOf(d)) = 2
          /\ InvocationsOf(d)[1].result = "Err"

\* A call of stop returns in this step.
StopReturns == stopped' = stopped + 1

\* C19 (concurrent stop callers): every step in which a call of stop
\* returns starts with the worker finished, the channel empty and every
\* accepted update handed to the fanout; the thread_hdl lock is held exactly
\* by the caller that is joining, a caller that arrives meanwhile cannot
\* pass the lock, and the lock is released only once the worker has
\* finished; the worker is joined at most once, exactly once when a stop
\* has returned.
C19_ConcurrentStop ==
    /\ [][ StopReturns =>
              (WorkerFinished /\ queue = <<>> /\ handed = accepted) ]_vars
    /\ [](\A t \in Threads :
            /\ (hdl_lock = t) <=> (pc[t] = "stop_join")
            /\ (pc[t] = "stop_take_hdl" /\ hdl_lock # None) =>
                  (~ENABLED StopTakeHandle(t) /\ ~thread_hdl))
    /\ [][ (hdl_lock # None /\ hdl_lock' = None) => WorkerFinished ]_vars
    /\ [](joins <= 1 /\ (stopped > 0 => joins = 1))

\* C19, its case: two calls of stop were both started before either
\* returned, with an update still in the channel; both have returned and
\* the worker was joined once.
C19_Witness ==
    /\ stopped = 2 /\ repeated = 0
    /\ backlog_at_close > 0
    /\ joins = 1

RestoreCalls ==
    { c \in CallIds : calls[c].op = "notify_account_restore_from_snapshot" }

\* C20 (startup-replay events never pass through the queue): every message
\* in the channel, the update in the worker's hands and every callback the
\* worker made carry is_startup = false; and every
\* notify_account_restore_from_snapshot, with or without async dispatch,
\* has returned, was never accepted into the channel, and was delivered by
\* its caller to every plugin once, with is_startup = true, the slot and
\* the write version of the call and the account's own fields.
C20_StartupNeverQueued ==
    /\ \A k \in 1..Len(queue) : ~queue[k].is_startup
    /\ pc[Worker] = "deliver" => ~cur[Worker].is_startup
    /\ \A k \in 1..Len(log) : log[k].by = "worker" => ~log[k].arg.is_startup
    /\ \A c \in RestoreCalls :
          LET a   == calls[c].args
              ups == InvocationsOf(c)
          IN  /\ calls[c].returned
              /\ Occurrences(accepted, c) = 0
              /\ Occurrences(QueuedCalls(queue), c) = 0
              /\ Len(ups) = Len(plugins)
              /\ \A i \in 1..Len(ups) :
                    /\ ups[i].plugin = i
                    /\ ups[i].by = "caller"
                    /\ ups[i].cb = "update_account"
                    /\ ups[i].arg.is_startup
                    /\ ups[i].arg.slot = a.slot
                    /\ ups[i].arg.view.write_version = a.write_version
                    /\ ups[i].arg.view.pubkey = a.account.pubkey
                    /\ ups[i].arg.view.lamports = a.account.lamports
                    /\ ups[i].arg.view.data = a.account.data
                    /\ ups[i].arg.view.txn = None

\* C20, its case: with async dispatch and two plugins, a restore was
\* delivered inline while an update went through the channel and the worker.
C20_Witness ==
    /\ async_dispatch /\ Len(plugins) = 2
    /\ \E c \in RestoreCalls : Len(InvocationsOf(c)) = 2
    /\ \E c \in CallIds : Accepted(c) /\ Occurrences(handed, c) = 1

=============================================================================
